---- MODULE Spec2Model ----
(***************************************************************************)
(* Model of src/server.js: the face verification service.                  *)
(*                                                                         *)
(* Three specifications share the module:                                  *)
(*   Spec         concurrent POST /verify requests on the Node event loop; *)
(*                one action per continuation: an awaited operation        *)
(*                settling and its caller running on to the next await,    *)
(*                return or throw; the caller's caller resumes in a step   *)
(*                of its own                                               *)
(*   EnforceSpec  the single-face classification of extractFaceData        *)
(*                (lines 118-142) applied to a detector output             *)
(*   ScoreSpec    compareFaces applied to a pair of descriptors, of equal  *)
(*                or of unequal length                                     *)
(*                                                                         *)
(* Numbers.  Descriptor components and distances are fixed-point: one      *)
(* grid step is 0.00005 (half of the fourth decimal), so the distance 1.0  *)
(* is One = 20000 steps.  A Euclidean distance is the real sqrt(s) of an   *)
(* integer s; it is carried as the pair [lo, hi] of its floor and ceiling  *)
(* (lo = hi exactly when the distance is on the grid).  Reported values:   *)
(* distance in units of 0.0001, matchPercentage in units of 0.01.  The     *)
(* arithmetic is exact; descriptor components are multiples of 0.0001.     *)
(***************************************************************************)
EXTENDS Integers, Sequences, FiniteSets, TLC

VARIABLES modelsLoaded, loadCount, netLoaded, req,
          detections, extraction,
          d1, d2, result, thrown

vars == <<modelsLoaded, loadCount, netLoaded, req, detections, extraction,
          d1, d2, result, thrown>>
serverVars == <<modelsLoaded, loadCount, netLoaded, req>>
enforceVars == <<detections, extraction>>
scoreVars == <<d1, d2, result, thrown>>

(***************************************************************************)
(* Bounds of the model                                                     *)
(***************************************************************************)
NumRequests == 2
MaxDetections == 2
EmbLen == 2

(***************************************************************************)
(* Configuration, lines 42-44                                              *)
(***************************************************************************)
\* 0.48, in units of 0.0001
FACE_MATCH_THRESHOLD == 4800
MIN_FACE_WIDTH == 120
MIN_IMAGE_SIZE == 300

\* toFixed(4) and toFixed(2), lines 156-157
DistanceDecimals == 4
PercentDecimals == 2

\* grid steps per 1.0: two per unit of the last reported distance decimal
One == 2 * (10 ^ DistanceDecimals)
\* the threshold on the grid
ThresholdSteps == 2 * FACE_MATCH_THRESHOLD

Requests == 1..NumRequests
Sides == {"ref", "selfie"}
Nets == <<"ssdMobilenetv1", "faceLandmark68Net", "faceRecognitionNet">>

(***************************************************************************)
(* Inputs                                                                  *)
(***************************************************************************)
\* decoded images: too narrow, too short, and exactly at the floor
Images ==
    {[width |-> MIN_IMAGE_SIZE - 1, height |-> MIN_IMAGE_SIZE],
     [width |-> MIN_IMAGE_SIZE, height |-> MIN_IMAGE_SIZE - 1],
     [width |-> MIN_IMAGE_SIZE, height |-> MIN_IMAGE_SIZE]}

\* descriptor components, in grid steps: 0, 0.0097, 0.30, 0.4799, 0.48, 0.60
\* and 1.0.  All are even, so a distance on the grid is an even number of
\* steps and no reported value is a rounding tie.
Components == {0, 194, 6000, 9598, 9600, 12000, 20000}
Embeddings == [1..EmbLen -> Components]
\* arrays one element short, for which euclideanDistance throws
ShortArrays == [1..(EmbLen - 1) -> Components]

Axis(c) == [i \in 1..EmbLen |-> IF i = 1 THEN c ELSE 0]

\* what awaiting the detector chain (lines 106-116) can produce: a list, no
\* list at all (the !detections case of line 119), or a raised fault
NoList == [kind |-> "nolist", list |-> <<>>]
Raised == [kind |-> "raise", list |-> <<>>]
Outputs(L) == {[kind |-> "list", list |-> l] : l \in L} \cup {NoList}

\* in Spec: a face just under the width floor, and faces at the floor whose
\* descriptors are at distance 0 and 0.48 of each other; lists of several
\* faces are drawn from the first two of these.  The recognition net gives
\* every descriptor the same length, so the throw of euclideanDistance on
\* arrays of unequal length is exercised under ScoreSpec
Descriptors == {Axis(0), Axis(9600)}
Crowd == [width : {MIN_FACE_WIDTH - 1, MIN_FACE_WIDTH}, descriptor : {Axis(0)}]
Detection == Crowd \cup [width : {MIN_FACE_WIDTH}, descriptor : Descriptors]
DetectionLists ==
    UNION {[1..n -> IF n <= 1 THEN Detection ELSE Crowd] : n \in 0..MaxDetections}
DetectorOutcomes == Outputs(DetectionLists) \cup {Raised}

\* in EnforceSpec: every list of up to MaxDetections faces over three widths
\* and three descriptors
EnforceDetection ==
    [width : {MIN_FACE_WIDTH - 1, MIN_FACE_WIDTH, MIN_FACE_WIDTH + 1},
     descriptor : {Axis(0), Axis(6000), Axis(9600)}]
DetectorOutputs ==
    Outputs(UNION {[1..n -> EnforceDetection] : n \in 0..MaxDetections})

(***************************************************************************)
(* Messages                                                                *)
(***************************************************************************)
MsgLowQuality == "Image too low quality. Use better camera."
MsgNoFace == "No face detected"
MsgMultiple == "Multiple faces detected"
MsgTooSmall == "Face too small. Move closer to camera."
MsgRequired == "referenceImageUrl and selfie file required"
MsgGeneric == "Face verification failed"
MsgLength == "euclideanDistance: arr1.length !== arr2.length"
MsgDestructure == "Cannot destructure property 'referenceImageUrl' of 'req.body' as it is undefined."
RejectionReasons == {MsgLowQuality, MsgNoFace, MsgMultiple, MsgTooSmall}

Label(s) == IF s = "ref" THEN "Reference image error: " ELSE "Selfie error: "

Failure(msg) == [success |-> FALSE, msg |-> msg, descriptor |-> <<>>]
Success(d) == [success |-> TRUE, msg |-> "", descriptor |-> d]

(***************************************************************************)
(* Arithmetic                                                              *)
(***************************************************************************)
Min(a, b) == IF a < b THEN a ELSE b
Max(a, b) == IF a > b THEN a ELSE b

RECURSIVE SqrtSearch(_, _, _)
SqrtSearch(n, lo, hi) ==
    IF lo = hi THEN lo
    ELSE LET mid == (lo + hi + 1) \div 2
         IN  IF mid * mid <= n THEN SqrtSearch(n, mid, hi)
             ELSE SqrtSearch(n, lo, mid - 1)

\* floor and ceiling of Math.sqrt(n), n < 2^31
FloorSqrt(n) == SqrtSearch(n, 0, 46340)
CeilSqrt(n) == LET f == FloorSqrt(n) IN IF f * f = n THEN f ELSE f + 1

RECURSIVE SumSquares(_, _, _)
SumSquares(a, b, i) ==
    IF i = 0 THEN 0
    ELSE (a[i] - b[i]) * (a[i] - b[i]) + SumSquares(a, b, i - 1)

\* faceapi.euclideanDistance: throws on arrays of unequal length, else the
\* sqrt of the sum of squared differences
euclideanDistance(a, b) ==
    IF Len(a) # Len(b) THEN [threw |-> TRUE, lo |-> 0, hi |-> 0]
    ELSE LET s == SumSquares(a, b, Len(a))
         IN  [threw |-> FALSE, lo |-> FloorSqrt(s), hi |-> CeilSqrt(s)]

\* x.toFixed(k) for a real in [lo, hi] grid steps (hi - lo <= 1), two steps
\* per unit of the last kept decimal: nearest unit, a tie away from zero
ToFixed(x) ==
    IF x.lo >= 0 THEN (x.lo + 1) \div 2
    ELSE -(((-x.hi) + 1) \div 2)

\* (1 - distance) * 100, in steps of half of 0.01
RawPercentage(dist) == [lo |-> One - dist.hi, hi |-> One - dist.lo]

\* Clamp without the Math.max(0, ...) floor
Clamp_NoFloor(p) == [lo |-> Min(One, p.lo), hi |-> Min(One, p.hi)]

\* Math.max(0, Math.min(100, p))
Clamp(p) ==
    [lo |-> Max(0, Min(One, p.lo)), hi |-> Max(0, Min(One, p.hi))]

\* Verified decided on the distance after toFixed(4)
Verified_Rounded(dist) == ToFixed(dist) < FACE_MATCH_THRESHOLD

\* Verified decided against 0.6, the library's default, not the configured one
Verified_DefaultThreshold(dist) == dist.lo < 2 * 6000

\* distance < FACE_MATCH_THRESHOLD, on the unrounded distance
Verified(dist) == dist.lo < ThresholdSteps

\* the result returned, or <<>> when euclideanDistance threw
compareFaces(a, b) ==
    LET distance == euclideanDistance(a, b)
        matchPercentage == Clamp(RawPercentage(distance))
    IN  IF distance.threw THEN <<>>
        ELSE <<[verified |-> Verified(distance),
                distance |-> ToFixed(distance),
                matchPercentage |-> ToFixed(matchPercentage),
                threshold |-> FACE_MATCH_THRESHOLD]>>

(***************************************************************************)
(* extractFaceData, the parts that do not suspend                          *)
(***************************************************************************)
\* TooLowQuality with && for ||
TooLowQuality_Both(image) ==
    image.width < MIN_IMAGE_SIZE /\ image.height < MIN_IMAGE_SIZE

\* line 99
TooLowQuality(image) ==
    image.width < MIN_IMAGE_SIZE \/ image.height < MIN_IMAGE_SIZE

\* Enforce with <= for < on the box width
Enforce_ExclusiveWidth(out) ==
    IF out.kind = "nolist" \/ Len(out.list) = 0 THEN Failure(MsgNoFace)
    ELSE IF Len(out.list) > 1 THEN Failure(MsgMultiple)
    ELSE IF out.list[1].width <= MIN_FACE_WIDTH THEN Failure(MsgTooSmall)
    ELSE Success(out.list[1].descriptor)

\* lines 118-142, on what the detector chain produced
Enforce(out) ==
    IF out.kind = "nolist" \/ Len(out.list) = 0 THEN Failure(MsgNoFace)
    ELSE IF Len(out.list) > 1 THEN Failure(MsgMultiple)
    ELSE IF out.list[1].width < MIN_FACE_WIDTH THEN Failure(MsgTooSmall)
    ELSE Success(out.list[1].descriptor)

(***************************************************************************)
(* The /verify handler, per request                                        *)
(***************************************************************************)
NewRequest ==
    [pc |-> "idle", side |-> "ref", net |-> 0,
     img |-> [s \in Sides |-> <<>>],
     data |-> [s \in Sides |-> <<>>],
     calls |-> [s \in Sides |-> 0],
     detOut |-> [s \in Sides |-> "none"],
     ret |-> <<>>,
     pending |-> "none",
     err |-> "none",
     resp |-> <<>>]

\* an async function called by the handler returns res: its promise is
\* fulfilled and the handler's await has yet to resume
Return(q, res) == [q EXCEPT !.pc = "returned", !.ret = <<res>>]

\* an async function throws e: its promise is rejected and the await of
\* its caller has yet to resume; the caller is extractFaceData (to =
\* "rethrow") or the handler (to = "rejected")
Reject(q, e, to) == [q EXCEPT !.pc = to, !.pending = e]

\* res.status(status).json(...)
Respond(q, status, msg, body) ==
    [q EXCEPT !.pc = "done",
              !.resp = Append(@, [status |-> status, msg |-> msg, result |-> body])]

\* Catch sending err.message to the caller
Catch_LeaksError(q, e) == Respond([q EXCEPT !.err = e], 500, e, <<>>)

\* lines 214-219: the catch block
Catch(q, e) == Respond([q EXCEPT !.err = e], 500, MsgGeneric, <<>>)

\* lines 207-213: compareFaces and the 200 response; a throw of
\* euclideanDistance lands in the catch block
Compare(q, res) ==
    LET out == compareFaces(q.data["ref"][1].descriptor, res.descriptor)
    IN  IF out = <<>> THEN Catch(q, MsgLength) ELSE Respond(q, 200, "", out)

\* AfterExtract without the return of line 192: a failed reference goes on
\* to the selfie
AfterExtract_NoShortCircuit(q, res) ==
    LET s == q.side
        q1 == [q EXCEPT !.data[s] = <<res>>]
    IN  IF s = "ref" THEN [q1 EXCEPT !.pc = "decode", !.side = "selfie"]
        ELSE IF ~res.success \/ ~q1.data["ref"][1].success
             THEN Respond(q1, 400, Label(s) \o res.msg, <<>>)
        ELSE Compare(q1, res)

\* lines 189-213: the handler once extractFaceData has returned res
AfterExtract(q, res) ==
    LET s == q.side
        q1 == [q EXCEPT !.data[s] = <<res>>]
    IN  IF ~res.success THEN Respond(q1, 400, Label(s) \o res.msg, <<>>)
        ELSE IF s = "ref" THEN [q1 EXCEPT !.pc = "decode", !.side = "selfie"]
        ELSE Compare(q1, res)

\* loadModels raising the flag before the loads instead of after them
loadModels_FlagFirst(r, q) ==
    IF modelsLoaded
    THEN /\ req' = [req EXCEPT ![r] = [q EXCEPT !.pc = "gate"]]
         /\ UNCHANGED <<modelsLoaded, loadCount, netLoaded>>
    ELSE /\ req' = [req EXCEPT ![r] = [q EXCEPT !.pc = "load", !.net = 1]]
         /\ loadCount' = [loadCount EXCEPT ![1] = @ + 1]
         /\ modelsLoaded' = TRUE
         /\ UNCHANGED netLoaded

\* lines 60-67: loadModels up to its first await, called by request r whose
\* record is q
loadModels(r, q) ==
    IF modelsLoaded
    THEN /\ req' = [req EXCEPT ![r] = [q EXCEPT !.pc = "gate"]]
         /\ UNCHANGED <<modelsLoaded, loadCount, netLoaded>>
    ELSE /\ req' = [req EXCEPT ![r] = [q EXCEPT !.pc = "load", !.net = 1]]
         /\ loadCount' = [loadCount EXCEPT ![1] = @ + 1]
         /\ UNCHANGED <<modelsLoaded, netLoaded>>

\* lines 176-188: the destructuring of req.body, which throws when the body
\* parser left it undefined; validation; then fetch(url) is started
Receive(r) ==
    /\ UNCHANGED <<enforceVars, scoreVars>>
    /\ req[r].pc = "idle"
    /\ \E hasBody \in BOOLEAN, hasUrl \in BOOLEAN, hasFile \in BOOLEAN :
          req' = [req EXCEPT ![r] =
                    IF ~hasBody THEN Catch(@, MsgDestructure)
                    ELSE IF ~hasUrl \/ ~hasFile
                    THEN Respond(@, 400, MsgRequired, <<>>)
                    ELSE [@ EXCEPT !.pc = "fetch"]]
    /\ UNCHANGED <<modelsLoaded, loadCount, netLoaded>>

\* lines 81-83: fetch settles and loadImageFromUrl goes on: it calls
\* res.buffer(), or throws (its own error of line 82, or fetch's)
FetchDone(r) ==
    /\ UNCHANGED <<enforceVars, scoreVars>>
    /\ req[r].pc = "fetch"
    /\ \E outcome \in {"ok", "notok", "raise"} :
          req' = [req EXCEPT ![r] =
                    IF outcome = "ok" THEN [@ EXCEPT !.pc = "buffer"]
                    ELSE IF outcome = "notok"
                         THEN Reject(@, "Failed to fetch reference image", "rejected")
                         ELSE Reject(@, "fetch", "rejected")]
    /\ UNCHANGED <<modelsLoaded, loadCount, netLoaded>>

\* lines 83-84: res.buffer() settles and loadImageFromUrl goes on: it calls
\* canvas.loadImage, or throws
BufferDone(r) ==
    /\ UNCHANGED <<enforceVars, scoreVars>>
    /\ req[r].pc = "buffer"
    /\ \E ok \in BOOLEAN :
          req' = [req EXCEPT ![r] =
                    IF ok THEN [@ EXCEPT !.pc = "decode"]
                    ELSE Reject(@, "buffer", "rejected")]
    /\ UNCHANGED <<modelsLoaded, loadCount, netLoaded>>

\* lines 84/89: canvas.loadImage settles and loadImageFromUrl or
\* loadImageFromBuffer returns the image or throws; the handler's await of
\* it has yet to resume
DecodeDone(r) ==
    /\ UNCHANGED <<enforceVars, scoreVars>>
    /\ req[r].pc = "decode"
    /\ \/ req' = [req EXCEPT ![r] = Reject(@, "decode", "rejected")]
       \/ \E image \in Images :
             req' = [req EXCEPT ![r] =
                       [@ EXCEPT !.img[req[r].side] = <<image>>, !.pc = "extract"]]
    /\ UNCHANGED <<modelsLoaded, loadCount, netLoaded>>

\* lines 188-189 / 198-199 and 95-96, 60-67: the handler resumes with the
\* image, enters extractFaceData, which calls loadModels
ExtractStart(r) ==
    /\ UNCHANGED <<enforceVars, scoreVars>>
    /\ req[r].pc = "extract"
    /\ loadModels(r, req[r])

\* lines 67-73: one loadFromDisk settles and loadModels goes on: to the
\* next net, to its return, or out by the exception, which extractFaceData
\* is next to see (net, its position among the nets, is 0 outside
\* loadModels)
LoadDone(r) ==
    /\ UNCHANGED <<enforceVars, scoreVars>>
    /\ req[r].pc = "load"
    /\ \/ /\ req' = [req EXCEPT ![r] = Reject([@ EXCEPT !.net = 0], "load", "rethrow")]
          /\ UNCHANGED <<modelsLoaded, loadCount, netLoaded>>
       \/ /\ netLoaded' = [netLoaded EXCEPT ![req[r].net] = TRUE]
          /\ IF req[r].net < Len(Nets)
             THEN /\ req' = [req EXCEPT ![r].net = @ + 1]
                  /\ loadCount' = [loadCount EXCEPT ![req[r].net + 1] = @ + 1]
                  /\ UNCHANGED modelsLoaded
             ELSE /\ req' = [req EXCEPT ![r].pc = "gate", ![r].net = 0]
                  /\ modelsLoaded' = TRUE
                  /\ UNCHANGED loadCount

\* line 96: extractFaceData resumes at its await of loadModels, which
\* threw: it throws in turn
Rethrow(r) ==
    /\ UNCHANGED <<enforceVars, scoreVars>>
    /\ req[r].pc = "rethrow"
    /\ req' = [req EXCEPT ![r].pc = "rejected"]
    /\ UNCHANGED <<modelsLoaded, loadCount, netLoaded>>

\* lines 98-116: extractFaceData resumes after loadModels and returns the
\* failure or calls the detector
QualityGate(r) ==
    /\ UNCHANGED <<enforceVars, scoreVars>>
    /\ req[r].pc = "gate"
    /\ LET q == req[r]
           s == q.side
       IN  req' = [req EXCEPT ![r] =
                     IF TooLowQuality(q.img[s][1])
                     THEN Return(q, Failure(MsgLowQuality))
                     ELSE [q EXCEPT !.pc = "detect", !.calls[s] = @ + 1]]
    /\ UNCHANGED <<modelsLoaded, loadCount, netLoaded>>

\* lines 106-142: the detector chain settles and extractFaceData goes on
\* to its return, or throws
DetectDone(r) ==
    /\ UNCHANGED <<enforceVars, scoreVars>>
    /\ req[r].pc = "detect"
    /\ \E out \in DetectorOutcomes :
          LET q == [req[r] EXCEPT !.detOut[req[r].side] = out.kind]
          IN  req' = [req EXCEPT ![r] =
                        IF out.kind = "raise" THEN Reject(q, "detect", "rejected")
                        ELSE Return(q, Enforce(out))]
    /\ UNCHANGED <<modelsLoaded, loadCount, netLoaded>>

\* lines 189-213: the handler resumes with what extractFaceData returned
HandlerResume(r) ==
    /\ UNCHANGED <<enforceVars, scoreVars>>
    /\ req[r].pc = "returned"
    /\ req' = [req EXCEPT ![r] = AfterExtract([@ EXCEPT !.ret = <<>>], @.ret[1])]
    /\ UNCHANGED <<modelsLoaded, loadCount, netLoaded>>

\* lines 188-199, 214-219: the handler resumes at an await whose promise was
\* rejected, in its catch block
HandlerCatch(r) ==
    /\ UNCHANGED <<enforceVars, scoreVars>>
    /\ req[r].pc = "rejected"
    /\ req' = [req EXCEPT ![r] = Catch([@ EXCEPT !.pending = "none"], @.pending)]
    /\ UNCHANGED <<modelsLoaded, loadCount, netLoaded>>

ServerInit ==
    /\ modelsLoaded = FALSE
    /\ loadCount = [n \in 1..Len(Nets) |-> 0]
    /\ netLoaded = [n \in 1..Len(Nets) |-> FALSE]
    /\ req = [r \in Requests |-> NewRequest]

EnforceIdle == detections = NoList /\ extraction = <<>>
ScoreIdle == d1 = <<>> /\ d2 = <<>> /\ result = <<>> /\ thrown = FALSE

Init == ServerInit /\ EnforceIdle /\ ScoreIdle

Next ==
    \E r \in Requests :
        \/ Receive(r)
        \/ FetchDone(r)
        \/ BufferDone(r)
        \/ DecodeDone(r)
        \/ ExtractStart(r)
        \/ LoadDone(r)
        \/ Rethrow(r)
        \/ QualityGate(r)
        \/ DetectDone(r)
        \/ HandlerResume(r)
        \/ HandlerCatch(r)

Spec == Init /\ [][Next]_vars

(***************************************************************************)
(* EnforceSpec: lines 118-142 on every detector output                     *)
(***************************************************************************)
EnforceInit ==
    /\ ServerInit /\ ScoreIdle
    /\ detections \in DetectorOutputs
    /\ extraction = <<>>

EnforceStep ==
    /\ extraction = <<>>
    /\ extraction' = <<Enforce(detections)>>
    /\ UNCHANGED <<detections, serverVars, scoreVars>>

EnforceSpec == EnforceInit /\ [][EnforceStep]_vars

(***************************************************************************)
(* ScoreSpec: compareFaces on every pair of descriptors                    *)
(***************************************************************************)
ScoreInit ==
    /\ ServerInit /\ EnforceIdle
    /\ d1 \in Embeddings \cup ShortArrays
    /\ d2 \in Embeddings \cup ShortArrays
    /\ result = <<>>
    /\ thrown = FALSE

ScoreStep ==
    /\ result = <<>> /\ ~thrown
    /\ result' = compareFaces(d1, d2)
    /\ thrown' = (result' = <<>>)
    /\ UNCHANGED <<d1, d2, serverVars, enforceVars>>

ScoreSpec == ScoreInit /\ [][ScoreStep]_vars

(***************************************************************************)
(* Properties, checked under Spec                                          *)
(***************************************************************************)
ServerError == [status |-> 500, msg |-> MsgGeneric, result |-> <<>>]
Rejection(s, msg) == [status |-> 400, msg |-> Label(s) \o msg, result |-> <<>>]
Undersized(q, s) ==
    /\ q.img[s] # <<>>
    /\ q.img[s][1].width < MIN_IMAGE_SIZE \/ q.img[s][1].height < MIN_IMAGE_SIZE
\* the fault a stage of the request raised, on its way to the handler's
\* catch block or caught there; "none" without one
Fault(q) == IF q.pending # "none" THEN q.pending ELSE q.err

\* C1: each of the three models is loaded from disk at most once in total,
\* whatever the interleaving of the requests that call loadModels.
C1_LoadedAtMostOnce == \A n \in 1..Len(Nets) : loadCount[n] <= 1

\* C2: whenever extraction of the reference image returned a failure, the
\* selfie was never decoded, extractFaceData never ran on it, the detector
\* was never called for it, and the one response is the 400 rejection
\* "Reference image error: <reason>" with the reference's reason.
C2_ShortCircuit ==
    \A r \in Requests :
        LET q == req[r]
        IN  (q.data["ref"] # <<>> /\ ~q.data["ref"][1].success) =>
               /\ q.img["selfie"] = <<>>
               /\ q.data["selfie"] = <<>>
               /\ q.calls["selfie"] = 0
               /\ q.detOut["selfie"] = "none"
               /\ q.side = "ref"
               /\ q.pc = "done"
               /\ q.data["ref"][1].msg \in RejectionReasons
               /\ q.resp = <<Rejection("ref", q.data["ref"][1].msg)>>

\* C2 witness: a reference with two faces was rejected with its label
\* (end-to-end scenario 4).
C2_Witness ==
    \E r \in Requests :
        /\ req[r].data["ref"] = <<Failure(MsgMultiple)>>
        /\ req[r].resp = <<Rejection("ref", MsgMultiple)>>
        /\ req[r].img["selfie"] = <<>>

\* C3 as stated: for an image narrower or shorter than MIN_IMAGE_SIZE the
\* detector is never invoked and the extractFaceData call for it, once
\* settled, has returned the too-low-quality failure; an undersized selfie
\* ends as "Selfie error: Image too low quality...".  Refuted: line 96
\* awaits loadModels before the gate of line 99, so the call for an
\* undersized reference throws when that load raised.
C3_GateAlwaysFails ==
    \A r \in Requests : \A s \in Sides :
        LET q == req[r]
        IN  Undersized(q, s) =>
               /\ q.calls[s] = 0
               /\ q.detOut[s] = "none"
               /\ q.pc \in {"returned", "rejected", "done"} =>
                     \/ q.ret = <<Failure(MsgLowQuality)>>
                     \/ q.data[s] = <<Failure(MsgLowQuality)>>
               /\ (s = "selfie" /\ q.pc = "done") =>
                     q.resp = <<Rejection("selfie", MsgLowQuality)>>

\* C3, amended: for an image narrower or shorter than MIN_IMAGE_SIZE the
\* detector is never invoked; the extractFaceData call for it returns the
\* too-low-quality failure and the request ends with that labeled rejection,
\* or, when the model load that precedes the gate raised, it throws that
\* fault and the request ends with the generic 500.  The load can raise for
\* the reference only: by the time the selfie is decoded the models are
\* loaded, so an undersized selfie always ends as "Selfie error: Image too
\* low quality...".
C3_GateBeforeDetector ==
    \A r \in Requests : \A s \in Sides :
        LET q == req[r]
        IN  Undersized(q, s) =>
               /\ q.calls[s] = 0
               /\ q.detOut[s] = "none"
               /\ q.pc \in {"extract", "load", "gate", "returned", "rethrow",
                           "rejected", "done"}
               /\ q.ret # <<>> => q.ret = <<Failure(MsgLowQuality)>>
               /\ q.data[s] # <<>> => q.data[s] = <<Failure(MsgLowQuality)>>
               /\ Fault(q) # "none" =>
                     s = "ref" /\ Fault(q) = "load" /\ q.data[s] = <<>>
               /\ q.pc = "done" =>
                     \/ /\ s = "ref" /\ q.err = "load" /\ q.data[s] = <<>>
                        /\ q.resp = <<ServerError>>
                     \/ /\ q.err = "none"
                        /\ q.data[s] = <<Failure(MsgLowQuality)>>
                        /\ q.resp = <<Rejection(s, MsgLowQuality)>>

\* C3 witness: an undersized selfie was rejected without a detector call
\* for it, after the reference went through the detector (scenario 3),
\* while another request's undersized reference ended on a raised model
\* load, with the generic 500 and no detector call.
C3_Witness ==
    \E r1 \in Requests, r2 \in Requests :
        /\ Undersized(req[r1], "selfie")
        /\ req[r1].calls["ref"] = 1
        /\ req[r1].calls["selfie"] = 0
        /\ req[r1].resp = <<Rejection("selfie", MsgLowQuality)>>
        /\ Undersized(req[r2], "ref")
        /\ req[r2].err = "load"
        /\ req[r2].calls["ref"] = 0
        /\ req[r2].resp = <<ServerError>>

\* C7: when the detector call for an image raised or yielded no list at
\* all, extractFaceData returned no rejection for that image (in
\* particular not no-face) and the request got no 400 response.
C7_DetectorFailureNotNoFace ==
    \A r \in Requests : \A s \in Sides :
        LET q == req[r]
        IN  q.detOut[s] \in {"nolist", "raise"} =>
               /\ q.data[s] = <<>>
               /\ q.ret = <<>>
               /\ \A i \in 1..Len(q.resp) : q.resp[i].status = 500

\* C8: a request has at most one response, and exactly one once it is
\* over; a request in which any stage raised a fault got the 500 response
\* with the fixed message and nothing else; a 400 other than the
\* validation error is the labeled message of a typed rejection that an
\* extraction of that request returned, in a request without a fault.
C8_ErrorClassesDisjoint ==
    \A r \in Requests :
        LET q == req[r]
        IN  /\ Len(q.resp) <= 1
            /\ (q.pc = "done") <=> (Len(q.resp) = 1)
            /\ q.err # "none" => q.resp = <<ServerError>>
            /\ q.pending # "none" =>
                  q.pc \in {"rethrow", "rejected"} /\ q.err = "none"
            /\ q.pc \in {"rethrow", "rejected"} => q.pending # "none"
            /\ \A i \in 1..Len(q.resp) :
                  /\ q.resp[i].status = 500 =>
                        q.err # "none" /\ q.resp[i] = ServerError
                  /\ q.resp[i].status = 200 => q.err = "none"
                  /\ (q.resp[i].status = 400 /\ q.resp[i].msg # MsgRequired) =>
                        /\ q.err = "none"
                        /\ \E s \in Sides :
                              /\ q.data[s] # <<>>
                              /\ ~q.data[s][1].success
                              /\ q.data[s][1].msg \in RejectionReasons
                              /\ q.resp[i] = Rejection(s, q.data[s][1].msg)

\* C8 witness: one request ended on a failed fetch with the generic 500
\* while another ended on a labeled rejection.
C8_Witness ==
    \E r1 \in Requests, r2 \in Requests :
        /\ req[r1].err = "Failed to fetch reference image"
        /\ req[r1].resp = <<ServerError>>
        /\ req[r2].resp = <<Rejection("selfie", MsgTooSmall)>>

\* C9: a detector invocation is in progress only if all three models have
\* finished loading, and a request whose load raised never called the
\* detector.
C9_LoadedBeforeUse ==
    \A r \in Requests :
        LET q == req[r]
        IN  /\ q.pc = "detect" => \A n \in 1..Len(Nets) : netLoaded[n]
            /\ q.calls["ref"] + q.calls["selfie"] > 0 =>
                  \A n \in 1..Len(Nets) : netLoaded[n]
            /\ Fault(q) = "load" =>
                  /\ q.pc \in {"rethrow", "rejected", "done"}
                  /\ q.calls["ref"] = 0 /\ q.calls["selfie"] = 0

\* C9 witness: one request is in the detector while another one's model
\* load has raised.
C9_Witness ==
    \E r1 \in Requests, r2 \in Requests :
        /\ req[r1].pc = "detect"
        /\ req[r2].err = "load"

(***************************************************************************)
(* Properties, checked under EnforceSpec                                   *)
(***************************************************************************)
\* C4: on a detector list, first match wins: length 0 gives no-face; length
\* above 1 gives multiple-faces whatever the widths; one detection narrower
\* than MIN_FACE_WIDTH gives face-too-small; one detection of width at
\* least MIN_FACE_WIDTH (equal included) gives success with its descriptor.
C4_SingleFace ==
    (extraction # <<>> /\ detections.kind = "list") =>
        LET l == detections.list
            e == extraction[1]
        IN  /\ Len(l) = 0 => e = Failure(MsgNoFace)
            /\ Len(l) > 1 => e = Failure(MsgMultiple)
            /\ (Len(l) = 1 /\ l[1].width < MIN_FACE_WIDTH) => e = Failure(MsgTooSmall)
            /\ (Len(l) = 1 /\ l[1].width >= MIN_FACE_WIDTH) =>
                  e = Success(l[1].descriptor)

\* C4 witness: one detection exactly MIN_FACE_WIDTH wide was accepted.
C4_Witness ==
    /\ extraction # <<>>
    /\ detections.kind = "list"
    /\ Len(detections.list) = 1
    /\ detections.list[1].width = MIN_FACE_WIDTH
    /\ extraction[1].success

(***************************************************************************)
(* Properties, checked under ScoreSpec                                     *)
(***************************************************************************)
\* the squared distance of the two inputs, in squared grid steps
SquaredDistance == SumSquares(d1, d2, Len(d1))
PercentMax == 100 * (10 ^ PercentDecimals)

\* C5: verified is true exactly when the unrounded distance is below the
\* threshold (squared: sum of squares below threshold squared), so not at
\* the threshold itself and whatever the rounded distance reported.
C5_VerifiedStrict ==
    result # <<>> =>
        (result[1].verified <=> SquaredDistance < ThresholdSteps * ThresholdSteps)

\* C5 witness: a distance below the threshold that is reported, rounded,
\* as the threshold itself, and verified.
C5_Witness ==
    /\ result # <<>>
    /\ SquaredDistance < ThresholdSteps * ThresholdSteps
    /\ result[1].distance = FACE_MATCH_THRESHOLD
    /\ result[1].verified

\* C6: matchPercentage is clamp((1 - d) * 100, 0, 100) to 2 decimals: it
\* lies in [0, 100]; it is 0 for d >= 1 and otherwise within half of 0.01
\* of (1 - d) * 100; d = 0 gives 100 and verified; d = 0.30 gives 70.00,
\* verified, threshold 0.48; d = 0.60 gives 40.00, not verified.
C6_MatchPercentage ==
    result # <<>> =>
        LET s == SquaredDistance
            p == result[1].matchPercentage
            above == One + 1 - 2 * p
            below == One - 1 - 2 * p
        IN  /\ p \in 0..PercentMax
            /\ s >= One * One => p = 0
            /\ s < One * One =>
                  /\ s <= above * above
                  /\ below < 0 \/ s > below * below
            /\ s = 0 => p = PercentMax /\ result[1].verified
            /\ s = 6000 * 6000 =>
                  /\ p = 7000
                  /\ result[1].verified
                  /\ result[1].threshold = 4800
            /\ s = 12000 * 12000 => p = 4000 /\ ~result[1].verified

\* C6 witness: a distance above 1 scored 0.
C6_Witness ==
    /\ result # <<>>
    /\ SquaredDistance > One * One
    /\ result[1].matchPercentage = 0

\* C10 as stated: verified equals (reported distance < reported threshold),
\* the reported distance being the one rounded to 4 decimals.
C10_AuditFromRoundedDistance ==
    result # <<>> =>
        /\ result[1].threshold = FACE_MATCH_THRESHOLD
        /\ result[1].verified <=> result[1].distance < result[1].threshold

\* C10 amended: the reported threshold is the configured one; a reported
\* distance below it implies verified, and verified implies a reported
\* distance at most equal to it.
C10_AuditOneSided ==
    result # <<>> =>
        /\ result[1].threshold = FACE_MATCH_THRESHOLD
        /\ result[1].distance < result[1].threshold => result[1].verified
        /\ result[1].verified => result[1].distance <= result[1].threshold

\* C10 witness: a verified result whose reported distance is below the
\* reported threshold.
C10_Witness ==
    /\ result # <<>>
    /\ result[1].verified
    /\ result[1].distance > 0
    /\ result[1].distance < result[1].threshold
====
